---- MODULE Spec2Model ----
(***************************************************************************)
(* The counter store of redux-counter/src/modules/index.js: the reducer    *)
(* built by handleActions over Immutable Map/List values, driven by a      *)
(* store that dispatches one action at a time.                             *)
(*                                                                         *)
(* Immutable values are objects with identity.  The model keeps them in a  *)
(* heap (three tables: counter Maps, Lists of counter references, state    *)
(* Maps holding a List reference) so that "returns a new value" and        *)
(* "returns this" are different outcomes, and so that an operation that    *)
(* wrote into an existing object would be visible through every reference  *)
(* to it.  JavaScript indices are 0-based; table positions are 1-based.    *)
(***************************************************************************)
EXTENDS Integers, Sequences, FiniteSets

VARIABLES heap, store, prevState, prevValue, lastAction, threw, scenario,
          console, net

vars == <<heap, store, prevState, prevValue, lastAction, threw, scenario,
          console, net>>

(* ------------------------------ bounds --------------------------------- *)

\* A dispatch is explored only while the resulting state's size (number of
\* counters plus the sum of the absolute values of their numbers) is at most this.
MaxSize == 4

\* The colors the callers pass (getRandomColor in the UI; any string in
\* general).  The initial counter's "black" is a fourth color of the states.
Colors == {"red", "blue", "green"}

(* --------------------------- JavaScript values ------------------------- *)

\* JavaScript's undefined: a missing state argument, a missing payload, and
\* the value List.update hands to the updater when the index holds nothing.
Undefined == 0

CREATE == "counter/CREATE"
REMOVE == "counter/REMOVE"
INCREMENT == "counter/INCREMENT"
DECREMENT == "counter/DECREMENT"
SET_COLOR == "counter/SET_COLOR"

\* A type the reducer has no handler for.
UnknownTypes == {"unknown"}

\* A creator that drops its argument.
createActionNoPayload(type, args) == [type |-> type]

\* createAction(type): the creator it returns, applied to the arguments
\* args, puts the first one in the field payload; called with no argument it
\* returns an action without that field.
createAction(type, args) ==
    IF args = <<>> THEN [type |-> type]
    ELSE [type |-> type, payload |-> args[1]]

create(color) == createAction(CREATE, <<color>>)
remove == createAction(REMOVE, <<>>)
increment(index) == createAction(INCREMENT, <<index>>)
decrement(index) == createAction(DECREMENT, <<index>>)
setColor(p) == createAction(SET_COLOR, <<p>>)

\* The type constants of ./ActionTypes, which the hand-written creators use.
types_INCREMENT == "INCREMENT"
types_DECREMENT == "DECREMENT"
types_SET_COLOR == "SET_COLOR"

\* The hand-written creators of actions/index.js: no argument for
\* increment and decerment, and the color in a field of its own name.
actions_increment == [type |-> types_INCREMENT]
actions_decerment == [type |-> types_DECREMENT]
actions_setColor(color) == [type |-> types_SET_COLOR, color |-> color]

(* ---------------------- results of library calls ----------------------- *)

\* A call returns a reference in a (possibly grown) heap, or throws; log is
\* what it wrote to the console.
Ret(h, ref) == [heap |-> h, ref |-> ref, threw |-> FALSE, log |-> <<>>]
Throw(h) == [heap |-> h, ref |-> Undefined, threw |-> TRUE, log |-> <<>>]

\* console.log(line) ahead of the rest of a handler, whose result is r.
ConsoleLog(line, r) == [r EXCEPT !.log = <<line>> \o @]

(* --------------------------- Immutable.Map ----------------------------- *)

\* Map({color, number}): a new counter Map.
NewMap(h, rec) ==
    Ret([h EXCEPT !.maps = Append(@, rec)], Len(h.maps) + 1)

\* counter.get(key)
MapGet(h, m, key) == IF m = Undefined THEN Undefined ELSE h.maps[m][key]

\* counter.set(key, val): a method call on undefined is a TypeError; setting
\* a key to the value it already has returns the same Map; otherwise a new
\* Map is returned and the receiver is left as it was.
MapSet(h, m, key, val) ==
    IF m = Undefined THEN Throw(h)
    ELSE IF h.maps[m][key] = val THEN Ret(h, m)
    ELSE NewMap(h, [h.maps[m] EXCEPT ![key] = val])

\* state.get('counters')
StateGet(h, s) == h.states[s].counters

\* state.set('counters', list): the same state Map when the List is the one
\* already held (compared by identity), else a new state Map.
StateSet(h, s, l) ==
    IF h.states[s].counters = l THEN Ret(h, s)
    ELSE Ret([h EXCEPT !.states = Append(@, [counters |-> l])], Len(h.states) + 1)

(* --------------------------- Immutable.List ---------------------------- *)

ListSize(h, l) == Len(h.lists[l])

NewList(h, refs) ==
    Ret([h EXCEPT !.lists = Append(@, refs)], Len(h.lists) + 1)

\* An index taken as a position counted from 1.
wrapIndexOneBased(h, l, index) ==
    IF index < 0 THEN ListSize(h, l) + index ELSE index - 1

\* wrapIndex: a negative index counts from the end.
wrapIndex(h, l, index) == IF index < 0 THEN ListSize(h, l) + index ELSE index

\* list.get(index, NOT_SET): nothing is held outside 0..size-1.
ListGet(h, l, index) ==
    LET i == wrapIndex(h, l, index)
    IN  IF i >= 0 /\ i < ListSize(h, l) THEN h.lists[l][i + 1] ELSE Undefined

\* list.set(index, value) for an index that holds a value: the same List when
\* the value is the one already there, else a new List.
ListSet(h, l, index, v) ==
    LET i == wrapIndex(h, l, index)
    IN  IF h.lists[l][i + 1] = v THEN Ret(h, l)
        ELSE NewList(h, [h.lists[l] EXCEPT ![i + 1] = v])

\* A push that appends to the receiver itself, as Array.prototype.push does.
ListPushInPlace(h, l, v) ==
    Ret([h EXCEPT !.lists[l] = Append(@, v)], l)

\* A push that puts the value first.
ListPushFront(h, l, v) == NewList(h, <<v>> \o h.lists[l])

\* list.push(value): a new List with the value after the last one.
ListPush(h, l, v) == NewList(h, Append(h.lists[l], v))

\* A pop that drops the first value.
ListPopFront(h, l) ==
    IF ListSize(h, l) = 0 THEN Ret(h, l)
    ELSE NewList(h, SubSeq(h.lists[l], 2, ListSize(h, l)))

\* A pop that fails on an empty List.
ListPopStrict(h, l) ==
    IF ListSize(h, l) = 0 THEN Throw(h)
    ELSE NewList(h, SubSeq(h.lists[l], 1, ListSize(h, l) - 1))

\* A pop that never removes the only value left.
ListPopFloor(h, l) ==
    IF ListSize(h, l) <= 1 THEN Ret(h, l)
    ELSE NewList(h, SubSeq(h.lists[l], 1, ListSize(h, l) - 1))

\* A pop that drops the last two values.
ListPopTwo(h, l) ==
    IF ListSize(h, l) = 0 THEN Ret(h, l)
    ELSE IF ListSize(h, l) = 1 THEN NewList(h, <<>>)
    ELSE NewList(h, SubSeq(h.lists[l], 1, ListSize(h, l) - 2))

\* list.pop(): setListBounds(list, 0, -1); an empty List is returned as it
\* is (clear() of an empty List), otherwise a new List without the last value.
ListPop(h, l) ==
    IF ListSize(h, l) = 0 THEN Ret(h, l)
    ELSE NewList(h, SubSeq(h.lists[l], 1, ListSize(h, l) - 1))

\* list.update(index, updater): the updater is called with the value at
\* index, ListGet(h, l, index), which is undefined when there is none;
\* `updated` is what that call returned or threw.  What it throws
\* propagates; an unchanged value returns the same List; otherwise the new
\* value is set at index.
ListUpdate(h, l, index, updated) ==
    IF updated.threw THEN updated
    ELSE IF updated.ref = ListGet(h, l, index) THEN Ret(updated.heap, l)
    ELSE ListSet(updated.heap, l, index, updated.ref)

(* ----------------------------- the module ------------------------------ *)

\* An initial state whose counter starts at 1.
InitialHeapOne ==
    [maps |-> << [color |-> "black", number |-> 1] >>,
     lists |-> << <<1>> >>,
     states |-> << [counters |-> 1] >>]

\* The objects the module creates when it is loaded: one counter Map, the
\* List holding it, and the state Map holding the List.
InitialHeap ==
    [maps |-> << [color |-> "black", number |-> 0] >>,
     lists |-> << <<1>> >>,
     states |-> << [counters |-> 1] >>]

\* The module constant: a reference to that state Map.
initaialState == 1

\* Used to carry a handler's result through state.set.
SetCounters(h, state, r) == IF r.threw THEN r ELSE StateSet(r.heap, state, r.ref)


\* The [CREATE] handler: push a new counter Map {color: payload, number: 0}.
CreateHandler(h, state, action) ==
    LET counters == StateGet(h, state)
        m == NewMap(h, [color |-> action.payload, number |-> 0])
    IN  ConsoleLog("create1",
            SetCounters(m.heap, state, ListPush(m.heap, counters, m.ref)))

\* A remove that calls pop and returns the state it was given, as if pop
\* changed the List it is called on.
RemoveHandlerDiscard(h, state, action) ==
    LET counters == StateGet(h, state)
        popped == ListPop(h, counters)
    IN  ConsoleLog("remove", Ret(popped.heap, state))

\* The [REMOVE] handler: pop the last counter.
RemoveHandler(h, state, action) ==
    LET counters == StateGet(h, state)
    IN  ConsoleLog("remove", SetCounters(h, state, ListPop(h, counters)))

\* An increment that subtracts.
IncrementHandlerDown(h, state, action) ==
    LET counters == StateGet(h, state)
        counter == ListGet(h, counters, action.payload)
    IN  SetCounters(h, state,
            ListUpdate(h, counters, action.payload,
                MapSet(h, counter, "number", MapGet(h, counter, "number") - 1)))

\* The [INCREMENT] handler: update the counter at index payload; the updater
\* (counter) => counter.set('number', counter.get('number') + 1).
IncrementHandler(h, state, action) ==
    LET counters == StateGet(h, state)
        counter == ListGet(h, counters, action.payload)
    IN  SetCounters(h, state,
            ListUpdate(h, counters, action.payload,
                MapSet(h, counter, "number", MapGet(h, counter, "number") + 1)))

\* A decrement that stops at zero.
DecrementHandlerFloor(h, state, action) ==
    LET counters == StateGet(h, state)
        counter == ListGet(h, counters, action.payload)
    IN  SetCounters(h, state,
            ListUpdate(h, counters, action.payload,
                MapSet(h, counter, "number",
                    IF MapGet(h, counter, "number") - 1 < 0 THEN 0
                    ELSE MapGet(h, counter, "number") - 1)))

\* The [DECREMENT] handler; the updater
\* (counter) => counter.set('number', counter.get('number') - 1).
DecrementHandler(h, state, action) ==
    LET counters == StateGet(h, state)
        counter == ListGet(h, counters, action.payload)
    IN  SetCounters(h, state,
            ListUpdate(h, counters, action.payload,
                MapSet(h, counter, "number", MapGet(h, counter, "number") - 1)))

\* A set-color that also resets the number.
SetColorHandlerReset(h, state, action) ==
    LET counters == StateGet(h, state)
        counter == ListGet(h, counters, action.payload.index)
    IN  SetCounters(h, state,
            ListUpdate(h, counters, action.payload.index,
                LET c == MapSet(h, counter, "color", action.payload.color)
                IN  IF c.threw THEN c ELSE MapSet(c.heap, c.ref, "number", 0)))

\* The [SET_COLOR] handler: payload is {index, color}; the updater
\* (counter) => counter.set('color', action.payload.color).
SetColorHandler(h, state, action) ==
    LET counters == StateGet(h, state)
        counter == ListGet(h, counters, action.payload.index)
    IN  SetCounters(h, state,
            ListUpdate(h, counters, action.payload.index,
                MapSet(h, counter, "color", action.payload.color)))

\* A reducer that falls back to the initial state on an unknown type.
reducerResetOnUnknown(h, state, action) ==
    LET s == IF state = Undefined THEN initaialState ELSE state
    IN  CASE action.type = CREATE -> CreateHandler(h, s, action)
          [] action.type = REMOVE -> RemoveHandler(h, s, action)
          [] action.type = INCREMENT -> IncrementHandler(h, s, action)
          [] action.type = DECREMENT -> DecrementHandler(h, s, action)
          [] action.type = SET_COLOR -> SetColorHandler(h, s, action)
          [] OTHER -> Ret(h, initaialState)

\* The reducer handleActions builds: a missing state defaults to
\* initaialState; the handler registered for action.type runs; any other
\* type returns the state it was given.
reducer(h, state, action) ==
    LET s == IF state = Undefined THEN initaialState ELSE state
    IN  CASE action.type = CREATE -> CreateHandler(h, s, action)
          [] action.type = REMOVE -> RemoveHandler(h, s, action)
          [] action.type = INCREMENT -> IncrementHandler(h, s, action)
          [] action.type = DECREMENT -> DecrementHandler(h, s, action)
          [] action.type = SET_COLOR -> SetColorHandler(h, s, action)
          [] OTHER -> Ret(h, s)

(* ------------------------- reading a state ----------------------------- *)

\* The sequence of {color, number} a List holds.
CountersOf(h, l) == [i \in 1..Len(h.lists[l]) |-> h.maps[h.lists[l][i]]]

\* state.toJS(): the plain contents reached from a state reference.
Value(h, s) == [counters |-> CountersOf(h, StateGet(h, s))]

Abs(n) == IF n < 0 THEN -n ELSE n

RECURSIVE SumAbs(_)
SumAbs(cs) ==
    IF cs = <<>> THEN 0
    ELSE Abs(cs[Len(cs)].number) + SumAbs(SubSeq(cs, 1, Len(cs) - 1))

\* The measure MaxSize bounds.
Size(v) == Len(v.counters) + SumAbs(v.counters)

(* --------------------------- reachability ------------------------------ *)

\* The distinct members of a sequence, in order of first occurrence.
RECURSIVE DistinctAfter(_, _)
DistinctAfter(seen, s) ==
    IF s = <<>> THEN seen
    ELSE DistinctAfter(
             IF \E i \in 1..Len(seen) : seen[i] = Head(s) THEN seen
             ELSE Append(seen, Head(s)),
             Tail(s))

Distinct(s) == DistinctAfter(<<>>, s)

RECURSIVE Concat(_)
Concat(ss) ==
    IF ss = <<>> THEN <<>>
    ELSE Concat(SubSeq(ss, 1, Len(ss) - 1)) \o ss[Len(ss)]

Position(s, x) == CHOOSE i \in 1..Len(s) : s[i] = x

\* Only the objects still referenced are kept: those reached from the given
\* state references (undefined ones skipped).  They are renumbered in the
\* order they are reached, so a state of the model does not depend on how
\* many unreferenced objects were allocated on the way to it.
LiveStates(roots) == Distinct(SelectSeq(roots, LAMBDA r : r # Undefined))

LiveLists(h, live) == Distinct([i \in 1..Len(live) |-> h.states[live[i]].counters])

LiveMaps(h, ls) == Distinct(Concat([i \in 1..Len(ls) |-> h.lists[ls[i]]]))

Compact(h, roots, live, ls, ms) ==
    [heap |->
        [maps |-> [i \in 1..Len(ms) |-> h.maps[ms[i]]],
         lists |-> [i \in 1..Len(ls) |->
                      [j \in 1..Len(h.lists[ls[i]]) |->
                          Position(ms, h.lists[ls[i]][j])]],
         states |-> [i \in 1..Len(live) |->
                      [counters |-> Position(ls, h.states[live[i]].counters)]]],
     roots |-> [i \in 1..Len(roots) |->
                  IF roots[i] = Undefined THEN Undefined
                  ELSE Position(live, roots[i])]]

Collect(h, roots) ==
    Compact(h, roots, LiveStates(roots), LiveLists(h, LiveStates(roots)),
            LiveMaps(h, LiveLists(h, LiveStates(roots))))

(* ------------------------------ the store ------------------------------ *)

\* The end-to-end scenario of the specification, as the actions dispatched.
Scenario ==
    << create("red"), create("blue"), increment(1),
       setColor([index |-> 2, color |-> "green"]), remove >>

SameAction(a, b) == a.type = b.type /\ a = b

\* How many actions of the scenario have been dispatched so far, when the
\* actions dispatched since the store was created are exactly its first ones;
\* -1 once they are not.
NextScenario(action) ==
    IF scenario >= 0 /\ scenario < Len(Scenario)
       /\ SameAction(action, Scenario[scenario + 1])
    THEN scenario + 1 ELSE -1

NoAction == [type |-> ""]

\* What a dispatch adds to (number of CREATE) - (number of REMOVE applied to
\* a non-empty sequence).
NetChange(action) ==
    IF action.type = CREATE THEN 1
    ELSE IF action.type = REMOVE /\ Value(heap, store).counters # <<>> THEN -1
    ELSE 0

\* createStore(reducer): the store calls the reducer once with no state and
\* its own initialisation action, and holds what it returns.
Init ==
    LET r == reducer(InitialHeap, Undefined, [type |-> "@@redux/INIT"])
        c == Collect(r.heap, <<initaialState, r.ref>>)
    IN  /\ heap = c.heap
        /\ store = c.roots[2]
        /\ prevState = Undefined
        /\ prevValue = Value(c.heap, c.roots[2])
        /\ lastAction = NoAction
        /\ threw = FALSE
        /\ scenario = 0
        /\ console = r.log
        /\ net = 0

\* store.dispatch(action): the reducer runs on the held state; the store
\* holds what it returns, or keeps its state when the reducer throws.
\* prevState/prevValue record the reference the store held before and what
\* it contained then; console is what the reducer wrote during this
\* dispatch; net counts CREATE minus effective REMOVE since creation.
Dispatch(action) ==
    \E r \in {reducer(heap, store, action)} :
    \E roots \in {<<initaialState, IF r.threw THEN store ELSE r.ref, store>>} :
    \E live \in {LiveStates(roots)} :
    \E ls \in {LiveLists(r.heap, live)} :
    \E ms \in {LiveMaps(r.heap, ls)} :
    \E c \in {Compact(r.heap, roots, live, ls, ms)} :
        /\ Size(Value(c.heap, c.roots[2])) <= MaxSize
        /\ heap' = c.heap
        /\ store' = c.roots[2]
        /\ prevState' = c.roots[3]
        /\ prevValue' = Value(heap, store)
        /\ lastAction' = action
        /\ threw' = r.threw
        /\ scenario' = NextScenario(action)
        /\ console' = r.log
        /\ net' = net + NetChange(action)

\* The indices a caller may pass for the current List: every valid one, the
\* first one past the end, and -1.
Indices == -1..Len(Value(heap, store).counters)

Create == \E color \in Colors : Dispatch(create(color))

Remove == Dispatch(remove)

Increment == \E index \in Indices : Dispatch(increment(index))

Decrement == \E index \in Indices : Dispatch(decrement(index))

SetColor ==
    \E index \in Indices, color \in Colors :
        Dispatch(setColor([index |-> index, color |-> color]))

Unknown == \E type \in UnknownTypes : Dispatch([type |-> type])

\* An action made by a hand-written creator reaches this store.
HandWritten ==
    \E a \in {actions_increment, actions_decerment}
              \cup {actions_setColor(color) : color \in Colors} :
        Dispatch(a)

Next ==
    Create \/ Remove \/ Increment \/ Decrement \/ SetColor \/ Unknown
        \/ HandWritten

Spec == Init /\ [][Next]_vars

(* --------------------------- type invariant ---------------------------- *)

TypeOK ==
    /\ store \in 1..Len(heap.states)
    /\ prevState \in 0..Len(heap.states)
    /\ threw \in BOOLEAN
    /\ scenario \in -1..Len(Scenario)
    /\ \A s \in 1..Len(heap.states) : heap.states[s].counters \in 1..Len(heap.lists)
    /\ \A l \in 1..Len(heap.lists) : \A j \in 1..Len(heap.lists[l]) :
           heap.lists[l][j] \in 1..Len(heap.maps)


(* ------------------------------- claims -------------------------------- *)

\* The counters the store holds now, and those it held before the last dispatch.
cur == Value(heap, store).counters
old == prevValue.counters

\* 0-based indices that hold a counter in the state before the last dispatch.
ValidIndex(i) == i >= 0 /\ i < Len(old)

InitialCounters == << [color |-> "black", number |-> 0] >>

\* C1: the initial state has exactly one counter, black and 0: it is what the
\* store holds while no action has been dispatched, and what the reducer
\* returns whenever it is called without a state.
C1_InitialState ==
    /\ lastAction.type = NoAction.type => cur = InitialCounters
    /\ \A type \in UnknownTypes :
          LET r == reducer(heap, Undefined, [type |-> type])
          IN  ~r.threw /\ Value(r.heap, r.ref).counters = InitialCounters

C1_Witness ==
    lastAction.type = NoAction.type /\ store = initaialState /\ Len(cur) = 1

\* C2: CREATE(C) yields the previous sequence with one counter {C, 0}
\* appended: length + 1, every earlier counter as it was.
C2_CreateAppends ==
    lastAction.type = CREATE =>
        /\ ~threw
        /\ cur = Append(old, [color |-> lastAction.payload, number |-> 0])
        /\ Len(cur) = Len(old) + 1

C2_Witness ==
    /\ lastAction.type = CREATE
    /\ Len(old) = 2
    /\ old[1].number # 0
    /\ old[1] # old[2]
    /\ cur[3].color # old[2].color

\* C3: REMOVE on a non-empty sequence drops only the last counter: length - 1,
\* the remaining counters as they were.
C3_RemoveDropsLast ==
    (lastAction.type = REMOVE /\ Len(old) > 0) =>
        /\ ~threw
        /\ cur = SubSeq(old, 1, Len(old) - 1)
        /\ Len(cur) = Len(old) - 1

C3_Witness ==
    /\ lastAction.type = REMOVE
    /\ Len(old) = 3
    /\ old[1] # old[3]
    /\ Len(cur) = 2

\* C4: REMOVE on an empty sequence raises no error and leaves it empty.
C4_RemoveOnEmpty ==
    (lastAction.type = REMOVE /\ old = <<>>) => (~threw /\ cur = <<>>)

C4_Witness == lastAction.type = REMOVE /\ old = <<>> /\ ~threw

\* C5: INCREMENT(i) with a valid i adds 1 to the number at i; the color at i,
\* every other counter and the length are as they were.
C5_IncrementAtIndex ==
    (lastAction.type = INCREMENT /\ ValidIndex(lastAction.payload)) =>
        /\ ~threw
        /\ cur = [old EXCEPT ![lastAction.payload + 1].number = @ + 1]

C5_Witness ==
    /\ lastAction.type = INCREMENT
    /\ lastAction.payload = 1
    /\ Len(old) = 3
    /\ cur[2].number = old[2].number + 1

\* C6: DECREMENT(i) with a valid i subtracts 1 from the number at i, below
\* zero too; every color, every other counter and the length are as they were.
C6_DecrementAtIndex ==
    (lastAction.type = DECREMENT /\ ValidIndex(lastAction.payload)) =>
        /\ ~threw
        /\ cur = [old EXCEPT ![lastAction.payload + 1].number = @ - 1]

C6_Witness ==
    /\ lastAction.type = DECREMENT
    /\ lastAction.payload = 1
    /\ Len(old) = 2
    /\ old[2].number = -1
    /\ cur[2].number = -2

\* C7: SET_COLOR({i, C}) with a valid i sets the color at i to C; the number
\* at i, every other counter and the length are as they were.
C7_SetColorAtIndex ==
    (lastAction.type = SET_COLOR /\ ValidIndex(lastAction.payload.index)) =>
        /\ ~threw
        /\ cur = [old EXCEPT ![lastAction.payload.index + 1].color =
                                 lastAction.payload.color]

C7_Witness ==
    /\ lastAction.type = SET_COLOR
    /\ lastAction.payload.index = 1
    /\ Len(old) = 2
    /\ old[2].number # 0
    /\ old[2].color # lastAction.payload.color
    /\ cur[2].color = lastAction.payload.color

\* C8: an action of an unrecognized type raises no error and returns the
\* state it was given: the same reference, with the same contents.
C8_UnknownIsIdentity ==
    lastAction.type \in UnknownTypes =>
        /\ ~threw
        /\ store = prevState
        /\ cur = old

C8_Witness ==
    /\ lastAction.type = "unknown"
    /\ store # initaialState
    /\ Len(cur) = 2
    /\ cur # <<InitialCounters[1], InitialCounters[1]>>

\* C9: after CREATE("red"), CREATE("blue"), INCREMENT(1),
\* SET_COLOR({index: 2, color: "green"}), REMOVE from the initial state, the
\* counters are exactly [{black, 0}, {red, 1}].
C9_Scenario ==
    scenario = Len(Scenario) =>
        cur = << [color |-> "black", number |-> 0],
                 [color |-> "red", number |-> 1] >>

C9_Witness ==
    scenario = Len(Scenario) /\ lastAction.type = REMOVE /\ ~threw

\* C10: no dispatch writes into a state obtained earlier: the state the
\* module created at load keeps its contents after any number of dispatches,
\* and the state the store held before a dispatch still has, after it, the
\* contents it had before (counters included).
C10_SnapshotsKept ==
    /\ Value(heap, initaialState).counters = InitialCounters
    /\ prevState # Undefined => Value(heap, prevState) = prevValue

C10_Witness ==
    /\ prevState # Undefined
    /\ prevState # initaialState
    /\ store # prevState
    /\ store # initaialState
    /\ heap.lists[StateGet(heap, store)] # <<>>
    /\ \E j \in 1..Len(heap.lists[StateGet(heap, prevState)]) :
          heap.lists[StateGet(heap, prevState)][j] \in
              {heap.lists[StateGet(heap, store)][k] :
                  k \in 1..Len(heap.lists[StateGet(heap, store)])}

\* The index the last action addresses, for the three actions that carry one.
IndexActions == {INCREMENT, DECREMENT, SET_COLOR}

LastIndex ==
    IF lastAction.type = SET_COLOR THEN lastAction.payload.index
    ELSE lastAction.payload

\* C11: INCREMENT, DECREMENT and SET_COLOR with an index outside
\* 0..length-1 (past the end, any index on an empty sequence, or negative)
\* raise no error and return the state unchanged.
C11_OutOfBoundsNoOp ==
    (lastAction.type \in IndexActions /\ ~ValidIndex(LastIndex)) =>
        /\ ~threw
        /\ store = prevState
        /\ cur = old

\* The five type constants of modules/index.js, and those of ./ActionTypes.
FiveTypes == {CREATE, REMOVE, INCREMENT, DECREMENT, SET_COLOR}
HandWrittenTypes == {types_INCREMENT, types_DECREMENT, types_SET_COLOR}

\* C12 as stated: every action made by a creator of the repository (either
\* file) has no field besides type and payload, and carries its argument,
\* when the creator takes one, in payload.
C12_WireShapeAllCreators ==
    lastAction.type \in FiveTypes \cup HandWrittenTypes =>
        /\ DOMAIN lastAction \subseteq {"type", "payload"}
        /\ lastAction.type \in {CREATE, SET_COLOR, types_SET_COLOR} =>
               "payload" \in DOMAIN lastAction

\* C12, amended: the creators modules/index.js builds with createAction make
\* {type, payload} with type one of the five constants and the argument in
\* payload (remove(), called without one, makes {type} alone), and payload
\* is what the reducer reads; the hand-written creators of actions/index.js
\* make {type} and {type, color}, with no payload.
C12_WireShapeCreateAction ==
    /\ \A color \in Colors : create(color) = [type |-> CREATE, payload |-> color]
    /\ remove = [type |-> REMOVE]
    /\ \A index \in Indices :
          /\ increment(index) = [type |-> INCREMENT, payload |-> index]
          /\ decrement(index) = [type |-> DECREMENT, payload |-> index]
          /\ \A color \in Colors :
                LET p == [index |-> index, color |-> color]
                IN  setColor(p) = [type |-> SET_COLOR, payload |-> p]
    /\ lastAction.type \in FiveTypes =>
          /\ DOMAIN lastAction \subseteq {"type", "payload"}
          /\ lastAction.type # REMOVE => "payload" \in DOMAIN lastAction
    /\ lastAction.type = CREATE => cur[Len(cur)].color = lastAction.payload
    /\ (lastAction.type = SET_COLOR /\ ValidIndex(LastIndex)) =>
          cur[LastIndex + 1].color = lastAction.payload.color
    /\ (lastAction.type = INCREMENT /\ ValidIndex(LastIndex)) =>
          cur[LastIndex + 1].number = old[LastIndex + 1].number + 1
    /\ lastAction.type \in HandWrittenTypes =>
          "payload" \notin DOMAIN lastAction

C12_Witness ==
    /\ lastAction.type = SET_COLOR
    /\ DOMAIN lastAction = {"type", "payload"}
    /\ DOMAIN lastAction.payload = {"index", "color"}
    /\ ValidIndex(LastIndex)
    /\ old[LastIndex + 1].color # lastAction.payload.color
    /\ cur[LastIndex + 1].color = lastAction.payload.color

\* C13: the reducer is a pure function: besides returning a state that
\* depends only on (state, action), handling an action has no effect
\* observable outside the returned state.  Here: no dispatch leaves anything
\* written to the console.
C13_NoOutsideEffect == console = <<>>

\* C14: no floor on the number of counters: REMOVE on the initial state (or
\* on any one-counter state) leaves an empty sequence, further REMOVEs keep
\* it empty, and CREATE(C) on the empty sequence yields exactly [{C, 0}].
C14_NoFloor ==
    /\ (lastAction.type = REMOVE /\ (prevState = initaialState \/ Len(old) <= 1)) =>
          (~threw /\ cur = <<>>)
    /\ (lastAction.type = CREATE /\ old = <<>>) =>
          (~threw /\ cur = << [color |-> lastAction.payload, number |-> 0] >>)

\* CREATE acting on the empty sequence that the REMOVEs left (one CREATE and
\* one effective REMOVE more than at the start: net = 0).
C14_Witness ==
    /\ lastAction.type = CREATE
    /\ old = <<>>
    /\ Len(cur) = 1
    /\ net = 0

\* The counters after dispatching a, b and c in turn from the store's
\* state, or <<>> with threw set when one of them throws.
AfterThree(a, b, c) ==
    LET r1 == reducer(heap, store, a)
        r2 == reducer(r1.heap, r1.ref, b)
        r3 == reducer(r2.heap, r2.ref, c)
    IN  IF r1.threw \/ r2.threw \/ r3.threw THEN [threw |-> TRUE, counters |-> <<>>]
        ELSE [threw |-> FALSE, counters |-> Value(r3.heap, r3.ref).counters]

\* The last action modified the counter at the last index (0-based).
ModifiedLast ==
    /\ lastAction.type \in IndexActions
    /\ ~threw
    /\ cur # <<>>
    /\ LastIndex = Len(cur) - 1

\* C15: counters are addressed by position only.  Once the counter at the
\* last index i has been modified, REMOVE followed by CREATE(C) puts a new
\* counter at i, and a later INCREMENT, DECREMENT or SET_COLOR on i acts on
\* {C, 0}: the result has {C, 1}, {C, -1} or {C2, 0} at i, whatever the color
\* and number of the removed counter were, and the counters before i as they
\* were.
C15_PositionOnly ==
    ModifiedLast =>
        LET i == LastIndex
            kept == SubSeq(cur, 1, i)
        IN  \A C \in Colors :
              /\ AfterThree(remove, create(C), increment(i)) =
                    [threw |-> FALSE,
                     counters |-> Append(kept, [color |-> C, number |-> 1])]
              /\ AfterThree(remove, create(C), decrement(i)) =
                    [threw |-> FALSE,
                     counters |-> Append(kept, [color |-> C, number |-> -1])]
              /\ \A C2 \in Colors :
                    AfterThree(remove, create(C),
                               setColor([index |-> i, color |-> C2])) =
                        [threw |-> FALSE,
                         counters |-> Append(kept, [color |-> C2, number |-> 0])]

\* A modified counter at the last index, with a number other than 0 and a
\* color other than the initial one, after two counters that stay.
C15_Witness ==
    /\ ModifiedLast
    /\ lastAction.type = DECREMENT
    /\ LastIndex = 2
    /\ cur[3].number # 0
    /\ cur[3].color # "black"

\* The positions at which the counters differ from those before the last
\* dispatch (for sequences of equal length).
Changed == {j \in 1..Len(cur) : cur[j] # old[j]}

\* C16: only CREATE and REMOVE change the length: the length is always
\* 1 + (number of CREATEs) - (number of REMOVEs applied to a non-empty
\* sequence), never negative; CREATE adds one, REMOVE takes one from a
\* non-empty sequence and none from an empty one; INCREMENT, DECREMENT,
\* SET_COLOR and unrecognized actions keep the length and the order (at most
\* the addressed counter differs, and the colors, resp. the numbers, stay in
\* place).
C16_LengthAccounting ==
    /\ Len(cur) = 1 + net
    /\ net >= -1
    /\ lastAction.type = CREATE => Len(cur) = Len(old) + 1
    /\ lastAction.type = REMOVE =>
          Len(cur) = IF old = <<>> THEN 0 ELSE Len(old) - 1
    /\ lastAction.type \in IndexActions =>
          /\ Len(cur) = Len(old)
          /\ Cardinality(Changed) <= 1
          /\ lastAction.type \in {INCREMENT, DECREMENT} =>
                \A j \in 1..Len(cur) : cur[j].color = old[j].color
          /\ lastAction.type = SET_COLOR =>
                \A j \in 1..Len(cur) : cur[j].number = old[j].number
    /\ lastAction.type \in UnknownTypes \cup HandWrittenTypes => cur = old

\* Two CREATEs at least and one effective REMOVE behind: three counters
\* became two.
C16_Witness ==
    /\ lastAction.type = REMOVE
    /\ Len(old) = 3
    /\ Len(cur) = 2
    /\ net = 1

\* The counters after dispatching a, resp. a and then b, from the store's
\* state, or <<>> with threw set when one of them throws.
AfterOne(a) ==
    LET r1 == reducer(heap, store, a)
    IN  IF r1.threw THEN [threw |-> TRUE, counters |-> <<>>]
        ELSE [threw |-> FALSE, counters |-> Value(r1.heap, r1.ref).counters]

AfterTwo(a, b) ==
    LET r1 == reducer(heap, store, a)
        r2 == reducer(r1.heap, r1.ref, b)
    IN  IF r1.threw \/ r2.threw THEN [threw |-> TRUE, counters |-> <<>>]
        ELSE [threw |-> FALSE, counters |-> Value(r2.heap, r2.ref).counters]

Same == [threw |-> FALSE, counters |-> cur]

\* C17: for every state S and valid index i, INCREMENT(i) then DECREMENT(i),
\* and DECREMENT(i) then INCREMENT(i), both give back the contents of S.
C17_IncDecRoundTrip ==
    \A i \in 0..(Len(cur) - 1) :
        /\ AfterTwo(increment(i), decrement(i)) = Same
        /\ AfterTwo(decrement(i), increment(i)) = Same

\* DECREMENT(1) has taken a counter from 0 to -1, and INCREMENT(1) on the
\* result gives back the contents from before.
C17_Witness ==
    /\ lastAction.type = DECREMENT
    /\ ~threw
    /\ LastIndex = 1
    /\ Len(old) = 2
    /\ old[2].number = 0
    /\ cur[2].number = -1
    /\ AfterOne(increment(1)) = [threw |-> FALSE, counters |-> old]

\* C18: for every state S (the empty one too) and color C, CREATE(C) then
\* REMOVE gives back the contents of S; REMOVE then CREATE(C) gives S with
\* its last counter replaced by {C, 0} ([{C, 0}] for the empty S), which is
\* S only when S ends with {C, 0}.
C18_CreateRemoveRoundTrip ==
    \A C \in Colors :
        LET fresh == [color |-> C, number |-> 0]
            swapped == Append(SubSeq(cur, 1, Len(cur) - 1), fresh)
        IN  /\ AfterTwo(create(C), remove) = Same
            /\ AfterTwo(remove, create(C)) = [threw |-> FALSE, counters |-> swapped]
            /\ (swapped = cur) <=> (cur # <<>> /\ cur[Len(cur)] = fresh)

\* CREATE has acted on a state S, REMOVE on the result gives back S, and on
\* S itself no REMOVE-then-CREATE gives back S.
C18_Witness ==
    /\ lastAction.type = CREATE
    /\ ~threw
    /\ Len(old) = 2
    /\ old[2].number # 0
    /\ AfterOne(remove) = [threw |-> FALSE, counters |-> old]
    /\ \A C \in Colors :
          Append(SubSeq(old, 1, 1), [color |-> C, number |-> 0]) # old

====
